---- MODULE Spec2Model ----
(***************************************************************************)
(* Model of saltext/freebsd/modules/freebsd_update.py: the command         *)
(* compiler _cmd, the execution wrapper _wrapper and the public operations *)
(* fetch, install, rollback, ids and update.                               *)
(*                                                                         *)
(* Python strings are sequences of atoms: an atom is an indivisible run of *)
(* characters, and the single space and the newline are atoms of their     *)
(* own, so that joining, formatting and word splitting are computed.       *)
(***************************************************************************)
EXTENDS Integers, Sequences, FiniteSets, TLC

\* pc        "ready" before the call, "done" once it has returned or raised
\* op        the function that was called
\* kwargs    the Options map (**kwargs) of the call
\* which     what salt.utils.path.which("freebsd-update") answers (line 53)
\* osrelease float(__grains__["osrelease"]) in tenths (line 147)
\* script    what __salt__["cmd.run_all"] answers to its first and second call
\* wargs     orig, pre, post, err_ and run_args of a direct _wrapper call
\* calls     the invocations of __salt__["cmd.run_all"] (lines 105-108)
\* outcome   the value returned or the exception raised
\* captured  the err_ dict after the call (lines 110-112)
\* log       the messages given to log.error (lines 117, 122)
VARIABLES pc, op, kwargs, which, osrelease, script, wargs, calls, outcome, captured, log

vars == <<pc, op, kwargs, which, osrelease, script, wargs, calls, outcome, captured, log>>

(* ------------------------------ bounds --------------------------------- *)

\* largest number of entries of an Options map given to _cmd
MaxOpts == 2

\* largest number of entries of an Options map given to an operation
MaxOpKwargs == 1

(* --------------------------- Python values ----------------------------- *)

SP == " "
NL == "\n"

PyStr(s) == [type |-> "str", str |-> s]
PyNone == [type |-> "NoneType", str |-> <<>>]
PyFalse == [type |-> "bool", str |-> <<>>]

\* bool(v) of a Python value
Truthy(v) == v.type = "str" /\ v.str # <<>>

\* "{}".format(v): str() of the value
Format(v) ==
  CASE v.type = "str" -> v.str
    [] v.type = "bool" -> <<"False">>
    [] v.type = "NoneType" -> <<"None">>

RECURSIVE Join(_, _)
\* sep.join(parts) for a list of strings
Join(sep, parts) ==
  IF parts = <<>> THEN <<>>
  ELSE IF Len(parts) = 1 THEN parts[1]
  ELSE parts[1] \o sep \o Join(sep, Tail(parts))

(* ------------------------- keyword arguments --------------------------- *)

\* a dict with insertion order: a sequence of [k, v] entries, keys distinct
HasKey(kw, k) == \E i \in 1..Len(kw) : kw[i].k = k
GetKey(kw, k) == kw[CHOOSE i \in 1..Len(kw) : kw[i].k = k].v

(* --------------------------- Command Compiler -------------------------- *)

Executable == <<"/usr/sbin/freebsd-update">>

CommandNotFoundError == "CommandNotFoundError"
TypeError == "TypeError"
KeyError == "KeyError"

Return(v) == [kind |-> "return", exc |-> "", value |-> v]
Raise(e) == [kind |-> "raise", exc |-> e, value |-> <<>>]

\* params with the key flag appended before the force flag
params_key_first(kw) ==
     (IF HasKey(kw, "basedir") THEN << <<"-b", SP>> \o Format(GetKey(kw, "basedir")) >> ELSE <<>>)
  \o (IF HasKey(kw, "workdir") THEN << <<"-d", SP>> \o Format(GetKey(kw, "workdir")) >> ELSE <<>>)
  \o (IF HasKey(kw, "conffile") THEN << <<"-f", SP>> \o Format(GetKey(kw, "conffile")) >> ELSE <<>>)
  \o (IF HasKey(kw, "key") THEN << <<"-k", SP>> \o Format(GetKey(kw, "key")) >> ELSE <<>>)
  \o (IF HasKey(kw, "force") THEN << <<"-F">> >> ELSE <<>>)
  \o (IF HasKey(kw, "newrelease") THEN << <<"-r", SP>> \o Format(GetKey(kw, "newrelease")) >> ELSE <<>>)
  \o (IF HasKey(kw, "server") THEN << <<"-s", SP>> \o Format(GetKey(kw, "server")) >> ELSE <<>>)
  \o (IF HasKey(kw, "address") THEN << <<"-t", SP>> \o Format(GetKey(kw, "address")) >> ELSE <<>>)

\* params with force tested by truthiness: if kwargs.get("force")
params_truthy_force(kw) ==
     (IF HasKey(kw, "basedir") THEN << <<"-b", SP>> \o Format(GetKey(kw, "basedir")) >> ELSE <<>>)
  \o (IF HasKey(kw, "workdir") THEN << <<"-d", SP>> \o Format(GetKey(kw, "workdir")) >> ELSE <<>>)
  \o (IF HasKey(kw, "conffile") THEN << <<"-f", SP>> \o Format(GetKey(kw, "conffile")) >> ELSE <<>>)
  \o (IF HasKey(kw, "force") /\ Truthy(GetKey(kw, "force")) THEN << <<"-F">> >> ELSE <<>>)
  \o (IF HasKey(kw, "key") THEN << <<"-k", SP>> \o Format(GetKey(kw, "key")) >> ELSE <<>>)
  \o (IF HasKey(kw, "newrelease") THEN << <<"-r", SP>> \o Format(GetKey(kw, "newrelease")) >> ELSE <<>>)
  \o (IF HasKey(kw, "server") THEN << <<"-s", SP>> \o Format(GetKey(kw, "server")) >> ELSE <<>>)
  \o (IF HasKey(kw, "address") THEN << <<"-t", SP>> \o Format(GetKey(kw, "address")) >> ELSE <<>>)

\* the params list of _cmd: one entry per recognized key present
params(kw) ==
     (IF HasKey(kw, "basedir") THEN << <<"-b", SP>> \o Format(GetKey(kw, "basedir")) >> ELSE <<>>)
  \o (IF HasKey(kw, "workdir") THEN << <<"-d", SP>> \o Format(GetKey(kw, "workdir")) >> ELSE <<>>)
  \o (IF HasKey(kw, "conffile") THEN << <<"-f", SP>> \o Format(GetKey(kw, "conffile")) >> ELSE <<>>)
  \o (IF HasKey(kw, "force") THEN << <<"-F">> >> ELSE <<>>)
  \o (IF HasKey(kw, "key") THEN << <<"-k", SP>> \o Format(GetKey(kw, "key")) >> ELSE <<>>)
  \o (IF HasKey(kw, "newrelease") THEN << <<"-r", SP>> \o Format(GetKey(kw, "newrelease")) >> ELSE <<>>)
  \o (IF HasKey(kw, "server") THEN << <<"-s", SP>> \o Format(GetKey(kw, "server")) >> ELSE <<>>)
  \o (IF HasKey(kw, "address") THEN << <<"-t", SP>> \o Format(GetKey(kw, "address")) >> ELSE <<>>)

\* _cmd without the check of the resolver's answer
_cmd_unchecked(kw) ==
  LET update_cmd == which IN
  IF params(kw) # <<>>
  THEN Return(update_cmd.str \o <<SP>> \o Join(<<SP>>, params(kw)))
  ELSE Return(update_cmd.str)

\* _cmd(**kwargs): the command string, or CommandNotFoundError
_cmd(kw) ==
  LET update_cmd == which IN
  IF ~Truthy(update_cmd) THEN Raise(CommandNotFoundError)
  ELSE IF params(kw) # <<>>
       THEN Return(update_cmd.str \o <<SP>> \o Join(<<SP>>, params(kw)))
       ELSE Return(update_cmd.str)

(* --------------------------- Execution Wrapper ------------------------- *)

\* list(*args): at most one positional argument is accepted
PyList(args) ==
  IF Len(args) > 1 THEN [raised |-> TRUE, exc |-> TypeError, items |-> <<>>]
  ELSE IF Len(args) = 0 THEN [raised |-> FALSE, exc |-> "", items |-> <<>>]
  ELSE [raised |-> FALSE, exc |-> "", items |-> [i \in 1..Len(args[1]) |-> <<args[1][i]>>]]

\* run_args: None or a dict of runner options (a set of <<name, value>>)
NoArgs == [isdict |-> FALSE, items |-> {}]
ArgsDict(items) == [isdict |-> TRUE, items |-> items]
PythonShell == <<"python_shell", TRUE>>

\* str(run_args) as the f-string renders it
ReprArgs(run_args) ==
  IF ~run_args.isdict THEN <<"None">>
  ELSE IF run_args.items = {} THEN <<"{}">>
  ELSE <<"{'python_shell': True}">>

\* the result dict of cmd.run_all and the err_ capture dict: the keys present
\* and their values (an absent key holds the default)
Dict(keys, retcode, stdout, stderr) ==
  [isdict |-> TRUE, keys |-> keys,
   retcode |-> IF "retcode" \in keys THEN retcode ELSE 0,
   stdout |-> IF "stdout" \in keys THEN stdout ELSE <<>>,
   stderr |-> IF "stderr" \in keys THEN stderr ELSE <<>>]
EmptyDict == Dict({}, 0, <<>>, <<>>)
NotADict == [isdict |-> FALSE, keys |-> {}, retcode |-> 0, stdout |-> <<>>, stderr |-> <<>>]

\* for k, v in res.items(): err_[k] = v
CopyInto(err_, res) ==
  IF ~err_.isdict THEN err_
  ELSE Dict(err_.keys \cup res.keys,
            IF "retcode" \in res.keys THEN res.retcode ELSE err_.retcode,
            IF "stdout" \in res.keys THEN res.stdout ELSE err_.stdout,
            IF "stderr" \in res.keys THEN res.stderr ELSE err_.stderr)

\* 'Unable to run "{cmd_str}" with run_args="{run_args}". Error: {msg}'
Diagnostic(cmd_str, run_args, msg) ==
  <<"Unable to run \"">> \o cmd_str \o <<"\" with run_args=\"">>
    \o ReprArgs(run_args) \o <<"\". Error: ">> \o msg

NoStdoutMessage == <<"cmd.run_all did not return a dictionary with a key named 'stdout'">>

\* what one call of _wrapper leaves behind
Done(out, cs, err_, lg) == [outcome |-> out, calls |-> cs, err_ |-> err_, log |-> lg]

\* _wrapper(orig, pre, post, err_, run_args, **kwargs); res is what the
\* process runner returns if it is invoked
_wrapper(orig, pre, post, err_, run_args, kw, res) ==
  LET cmd == _cmd(kw)
      lst == PyList(<<pre, cmd.value, post, orig>>)
      cmd_str == Join(<<SP>>, lst.items)
      call == [cmd_str |-> cmd_str,
               kwargs |-> IF run_args.isdict /\ run_args.items # {} THEN run_args.items ELSE {}]
      copied == CopyInto(err_, res)
      msg == Join(<<SP>>, SelectSeq(<<res.stdout, res.stderr>>, LAMBDA x : x # <<>>))
      diag == Diagnostic(cmd_str, run_args, msg)
  IN
  IF cmd.kind = "raise" THEN Done(cmd, <<>>, err_, <<>>)
  ELSE IF lst.raised THEN Done(Raise(lst.exc), <<>>, err_, <<>>)
  ELSE IF "retcode" \in res.keys /\ res.retcode # 0
       THEN IF "stdout" \notin res.keys \/ "stderr" \notin res.keys
            THEN Done(Raise(KeyError), <<call>>, copied, <<>>)
            ELSE Done(Return(diag), <<call>>, copied, <<diag>>)
       ELSE IF "stdout" \in res.keys
            THEN Done(Return(res.stdout), <<call>>, copied, <<>>)
            ELSE Done(Return(<<>>), <<call>>, copied, <<NoStdoutMessage>>)

(* --------------------------- Public operations ------------------------- *)

\* float(__grains__["osrelease"]) in tenths; fetch compares it with 10.2
CronRelease == 102

\* the n-th result of the process runner (cmd.run_all) in this run
RunnerResult(n) == script[n]

fetch(kw) ==
  IF osrelease >= CronRelease
  THEN _wrapper(<<"fetch">>, <<>>, <<"--not-running-from-cron">>, NotADict,
                ArgsDict({}), kw, RunnerResult(1))
  ELSE _wrapper(<<"fetch">>, <<SP, "env", SP, "PAGER=cat">>, <<>>, NotADict,
                ArgsDict({PythonShell}), kw, RunnerResult(1))

install(kw) == _wrapper(<<"install">>, <<>>, <<>>, NotADict, NoArgs, kw, RunnerResult(1))

rollback(kw) == _wrapper(<<"rollback">>, <<>>, <<>>, NotADict, NoArgs, kw, RunnerResult(1))

ids(kw) == _wrapper(<<"IDS">>, <<>>, <<>>, NotADict, NoArgs, kw, RunnerResult(1))

\* [f"{k}: {v}" for (k, v) in stdout.items()]
SummaryLines(stdout) == [i \in 1..Len(stdout) |-> stdout[i].k \o <<": ">> \o stdout[i].v]

RECURSIVE update_loop(_, _, _, _, _)
\* the for loop of update over the modes left, with the stdout dict, the
\* runner calls and the log so far
update_loop(modes, stdout, cs, lg, kw) ==
  IF modes = <<>>
  THEN Done(Return(Join(<<NL>>, SummaryLines(stdout))), cs, EmptyDict, lg)
  ELSE LET w == _wrapper(Head(modes), <<>>, <<>>, EmptyDict, NoArgs, kw,
                         RunnerResult(Len(cs) + 1))
           err_ == w.err_
       IN IF w.outcome.kind = "raise"
          THEN Done(w.outcome, cs \o w.calls, err_, lg \o w.log)
          ELSE IF "retcode" \in err_.keys /\ err_.retcode # 0
               THEN Done(w.outcome, cs \o w.calls, err_, lg \o w.log)
               ELSE update_loop(Tail(modes),
                                IF "stdout" \in err_.keys
                                THEN Append(stdout, [k |-> Head(modes), v |-> err_.stdout])
                                ELSE stdout,
                                cs \o w.calls, lg \o w.log, kw)

update(kw) == update_loop(<< <<"fetch">>, <<"install">> >>, <<>>, <<>>, <<>>, kw)

(* ------------------------------ inputs --------------------------------- *)

RecognizedKeys ==
  {"basedir", "workdir", "conffile", "force", "key", "newrelease", "server", "address"}

\* the keys a caller may pass: the recognized ones and two that are not
OptionKeys == RecognizedKeys \cup {"verbose", "timeout"}

\* the values a caller may pass: strings (one empty, one that reads as a
\* flag), False and None
OptionValues == {PyStr(<<"/a">>), PyStr(<<"-F">>), PyStr(<<>>), PyFalse, PyNone}

KeysOf(kw) == {kw[i].k : i \in 1..Len(kw)}

RECURSIVE KwargsOfLen(_, _, _)
\* the dicts of exactly n entries, in every insertion order
KwargsOfLen(K, V, n) ==
  IF n = 0 THEN {<<>>}
  ELSE UNION {{Append(m, [k |-> k, v |-> v]) : k \in K \ KeysOf(m), v \in V} :
              m \in KwargsOfLen(K, V, n - 1)}

KwargsUpTo(K, V, n) == UNION {KwargsOfLen(K, V, i) : i \in 0..n}

\* the Options maps given to _cmd
CmdKwargs == KwargsUpTo(OptionKeys, OptionValues, MaxOpts)

\* the Options maps given to the operations and to _wrapper
OpKwargs == KwargsUpTo(OptionKeys, {PyStr(<<"/a">>)}, MaxOpKwargs)

\* salt.utils.path.which("freebsd-update"): no match, or the path
WhichResults == {PyNone, PyStr(Executable)}

\* OS releases 9.3, 10.2 and 11.0, in tenths
Releases == {93, CronRelease, 110}

\* results of the process runner with every field present
Results(out) ==
  {Dict({"retcode", "stdout", "stderr"}, rc, so, se) :
     rc \in {0, 1}, so \in {<<>>, <<out>>}, se \in {<<>>, <<"network error">>}}

\* results of the process runner with fields possibly missing
LooseResults ==
  {Dict(ks, rc, so, <<"network error">>) :
     ks \in SUBSET {"retcode", "stdout", "stderr"}, rc \in {0, 1}, so \in {<<>>, <<"out">>}}

\* the runner answers the first call with script[1], the second with script[2]
Scripts == {<<f, i>> : f \in Results("fetched"), i \in Results("installed")}

LooseScripts == {<<r, EmptyDict>> : r \in LooseResults}

\* the arguments _wrapper is called with besides the Options map
WrapperArgs ==
  {[orig |-> o, pre |-> pp[1], post |-> pp[2], err_ |-> e, run_args |-> ra] :
     o \in {<<"install">>, <<"IDS">>},
     pp \in {<< <<>>, <<>> >>,
             << <<SP, "env", SP, "PAGER=cat">>, <<>> >>,
             << <<>>, <<"--not-running-from-cron">> >>},
     e \in {NotADict, EmptyDict},
     ra \in {NoArgs, ArgsDict({}), ArgsDict({PythonShell})}}

NoWrapperArgs ==
  [orig |-> <<>>, pre |-> <<>>, post |-> <<>>, err_ |-> NotADict, run_args |-> NoArgs]

NoOutcome == [kind |-> "none", exc |-> "", value |-> <<>>]

(* --------------------------- the state machine ------------------------- *)

\* before the call: the environment is set, nothing has run
Idle ==
  /\ pc = "ready"
  /\ op = ""
  /\ kwargs = <<>>
  /\ wargs = NoWrapperArgs
  /\ calls = <<>>
  /\ outcome = NoOutcome
  /\ captured = NotADict
  /\ log = <<>>

Init ==
  /\ Idle
  /\ which \in WhichResults
  /\ osrelease \in Releases
  /\ script \in Scripts

\* one call of a public operation with the Options map kw
Call(name, kw, r) ==
  /\ pc = "ready"
  /\ pc' = "done"
  /\ op' = name
  /\ kwargs' = kw
  /\ calls' = r.calls
  /\ outcome' = r.outcome
  /\ captured' = r.err_
  /\ log' = r.log
  /\ UNCHANGED <<which, osrelease, script, wargs>>

Fetch == \E kw \in OpKwargs : Call("fetch", kw, fetch(kw))

Install == \E kw \in OpKwargs : Call("install", kw, install(kw))

Rollback == \E kw \in OpKwargs : Call("rollback", kw, rollback(kw))

Ids == \E kw \in OpKwargs : Call("ids", kw, ids(kw))

Update == \E kw \in OpKwargs : Call("update", kw, update(kw))

Next == Fetch \/ Install \/ Rollback \/ Ids \/ Update

Spec == Init /\ [][Next]_vars

\* _wrapper on its own, with every combination of its arguments
InitWrapper ==
  /\ Idle
  /\ which \in WhichResults
  /\ osrelease = CronRelease
  /\ script \in LooseScripts

Wrapper ==
  \E kw \in OpKwargs, a \in WrapperArgs :
    /\ pc = "ready"
    /\ pc' = "done"
    /\ op' = "_wrapper"
    /\ kwargs' = kw
    /\ wargs' = a
    /\ LET r == _wrapper(a.orig, a.pre, a.post, a.err_, a.run_args, kw, RunnerResult(1))
       IN /\ calls' = r.calls
          /\ outcome' = r.outcome
          /\ captured' = r.err_
          /\ log' = r.log
    /\ UNCHANGED <<which, osrelease, script>>

NextWrapper == Wrapper

SpecWrapper == InitWrapper /\ [][NextWrapper]_vars

\* _cmd on its own
InitCmd ==
  /\ Idle
  /\ which \in WhichResults
  /\ osrelease = CronRelease
  /\ script = <<EmptyDict, EmptyDict>>

Cmd ==
  \E kw \in CmdKwargs :
    /\ pc = "ready"
    /\ pc' = "done"
    /\ op' = "_cmd"
    /\ kwargs' = kw
    /\ outcome' = _cmd(kw)
    /\ UNCHANGED <<which, osrelease, script, wargs, calls, captured, log>>

NextCmd == Cmd

SpecCmd == InitCmd /\ [][NextCmd]_vars

(* ------------------------------ properties ----------------------------- *)

\* sub occurs in s as a contiguous run of atoms
Contains(s, sub) ==
  \E i \in 0..(Len(s) - Len(sub)) : \A j \in 1..Len(sub) : s[i + j] = sub[j]

\* the number of space-separated words of s that are exactly w
CountWord(s, w) ==
  Cardinality({i \in 1..Len(s) :
                 /\ s[i] = w
                 /\ (i = 1 \/ s[i - 1] = SP)
                 /\ (i = Len(s) \/ s[i + 1] = SP)})

AllFields == {"retcode", "stdout", "stderr"}

Found == Truthy(which)

Finished(name) == pc = "done" /\ op = name

\* C1: in update, when the fetch phase's runner result has a non-zero return
\* code, update returns the diagnostic string carrying the runner's stdout and
\* stderr texts and the runner is called exactly once (install never runs).
C1_FetchFailureAborts ==
  (Finished("update") /\ Found /\ script[1].retcode # 0) =>
     /\ outcome.kind = "return"
     /\ Contains(outcome.value, script[1].stdout)
     /\ Contains(outcome.value, script[1].stderr)
     /\ Len(calls) = 1

\* C2: in update, when both phases return code 0 with stdout F and I, the
\* runner is called exactly twice, fetch before install, and update returns
\* "fetch: F" newline "install: I".
C2_UpdateSummary ==
  (Finished("update") /\ Found /\ script[1].retcode = 0 /\ script[2].retcode = 0) =>
     /\ Len(calls) = 2
     /\ calls[1].cmd_str[Len(calls[1].cmd_str)] = "fetch"
     /\ calls[2].cmd_str[Len(calls[2].cmd_str)] = "install"
     /\ outcome = Return(<<"fetch", ": ">> \o script[1].stdout \o <<NL>>
                           \o <<"install", ": ">> \o script[2].stdout)

\* C3: when the path resolver finds no executable, each of fetch, install,
\* rollback, ids and update fails with CommandNotFoundError and the process
\* runner is invoked zero times, for every Options map.
C3_ToolNotFound ==
  (pc = "done" /\ ~Found) =>
     /\ op \in {"fetch", "install", "rollback", "ids", "update"}
     /\ outcome = Raise(CommandNotFoundError)
     /\ calls = <<>>

\* update was called with a non-empty Options map and no executable found
C3_Witness == Finished("update") /\ ~Found /\ kwargs # <<>>

\* the table of the recognized keys, in its fixed order
FlagTable ==
  << [key |-> "basedir", flag |-> "-b", valued |-> TRUE],
     [key |-> "workdir", flag |-> "-d", valued |-> TRUE],
     [key |-> "conffile", flag |-> "-f", valued |-> TRUE],
     [key |-> "force", flag |-> "-F", valued |-> FALSE],
     [key |-> "key", flag |-> "-k", valued |-> TRUE],
     [key |-> "newrelease", flag |-> "-r", valued |-> TRUE],
     [key |-> "server", flag |-> "-s", valued |-> TRUE],
     [key |-> "address", flag |-> "-t", valued |-> TRUE] >>

\* the value the Options map (as a set of entries) gives to key k
ValueOf(entries, k) == (CHOOSE e \in entries : e.k = k).v

RECURSIVE Compiled(_, _, _)
\* the command line the table prescribes for a set of entries: the line so
\* far, then a space and the flag token of each row from row i on whose key
\* is present
Compiled(line, entries, i) ==
  IF i > Len(FlagTable) THEN line
  ELSE LET row == FlagTable[i] IN
       IF row.key \notin {e.k : e \in entries} THEN Compiled(line, entries, i + 1)
       ELSE Compiled(line \o <<SP, row.flag>>
                          \o (IF row.valued THEN <<SP>> \o Format(ValueOf(entries, row.key))
                              ELSE <<>>),
                     entries, i + 1)

EntriesOf(kw) == {kw[i] : i \in 1..Len(kw)}

\* the same dict in every insertion order
Reorderings(kw) ==
  {[i \in 1..Len(kw) |-> kw[p[i]]] : p \in Permutations(1..Len(kw))}

\* C4: for every Options map, _cmd returns the executable path followed by one
\* flag token per recognized key present, in the order -b -d -f -F -k -r -s -t,
\* joined by single spaces, whatever the insertion order; a map without
\* recognized keys yields the bare path.
C4_FixedFlagOrder ==
  (Finished("_cmd") /\ Found) =>
     /\ outcome = Return(Compiled(Executable, EntriesOf(kwargs), 1))
     /\ \A other \in Reorderings(kwargs) : _cmd(other) = outcome
     /\ (KeysOf(kwargs) \cap RecognizedKeys = {} => outcome = Return(Executable))

\* _cmd compiled two recognized keys that were inserted against the table order
C4_Witness ==
  /\ Finished("_cmd") /\ Found
  /\ Len(kwargs) = 2
  /\ kwargs[1].k = "server" /\ kwargs[2].k = "force"
  /\ outcome.kind = "return"

\* _cmd compiled a map that holds unrecognized keys only
C4_WitnessUnrecognized ==
  /\ Finished("_cmd") /\ Found
  /\ kwargs # <<>> /\ KeysOf(kwargs) \cap RecognizedKeys = {}
  /\ outcome = Return(Executable)

ForceFlag == IF HasKey(kwargs, "force") THEN 1 ELSE 0

\* the -F words that the values of the other recognized options carry
RECURSIVE CarriedWords(_, _)
CarriedWords(entries, i) ==
  IF i > Len(FlagTable) THEN 0
  ELSE (IF FlagTable[i].valued /\ FlagTable[i].key \in {e.k : e \in entries}
        THEN CountWord(Format(ValueOf(entries, FlagTable[i].key)), "-F")
        ELSE 0)
       + CarriedWords(entries, i + 1)

\* C5 as stated: with force present, whatever its value, the compiled string
\* contains the word -F exactly once; with force absent it contains none.
C5_ForceOnce ==
  (Finished("_cmd") /\ Found) => CountWord(outcome.value, "-F") = ForceFlag

\* C5 amended: force, whatever its value, contributes exactly one -F word and
\* its absence none; every other -F word of the compiled string is one that
\* the value of another recognized option carries verbatim.
C5_ForceOnceBesidesValues ==
  (Finished("_cmd") /\ Found) =>
     /\ CountWord(outcome.value, "-F") = ForceFlag + CarriedWords(EntriesOf(kwargs), 1)
     /\ (CarriedWords(EntriesOf(kwargs), 1) = 0 =>
           CountWord(outcome.value, "-F") = ForceFlag)

\* _cmd compiled a map whose force value is falsy and whose other value
\* carries no -F
C5_Witness ==
  /\ Finished("_cmd") /\ Found
  /\ HasKey(kwargs, "force") /\ ~Truthy(GetKey(kwargs, "force"))
  /\ Len(kwargs) = 2
  /\ CarriedWords(EntriesOf(kwargs), 1) = 0
  /\ CountWord(outcome.value, "-F") = 1

\* C6: fetch on release 10.2 or higher hands the runner a command line with
\* --not-running-from-cron and no shell interpretation; below 10.2 a command
\* line with PAGER=cat and python_shell=True.
C6_FetchByRelease ==
  (Finished("fetch") /\ Found) =>
     /\ Len(calls) = 1
     /\ IF osrelease >= CronRelease
        THEN /\ Contains(calls[1].cmd_str, <<"--not-running-from-cron">>)
             /\ PythonShell \notin calls[1].kwargs
        ELSE /\ Contains(calls[1].cmd_str, <<"PAGER=cat">>)
             /\ PythonShell \in calls[1].kwargs

\* C7: with the executable found, _wrapper returns a diagnostic string that
\* includes the runner's non-empty stdout and stderr when the return code is
\* non-zero, and returns exactly the captured stdout when it is zero; it does
\* not raise.
C7_WrapperOutcome ==
  (Finished("_wrapper") /\ Found /\ script[1].keys = AllFields) =>
     IF script[1].retcode # 0
     THEN /\ outcome.kind = "return"
          /\ Contains(outcome.value,
                      Join(<<SP>>, SelectSeq(<<script[1].stdout, script[1].stderr>>,
                                             LAMBDA x : x # <<>>)))
     ELSE outcome = Return(script[1].stdout)

\* C8: when the runner's result lacks stdout, stderr or retcode, whatever the
\* other fields hold, _wrapper returns the empty outcome and does not raise.
C8_MalformedSwallowed ==
  (Finished("_wrapper") /\ Found /\ script[1].keys # AllFields) =>
     outcome = Return(<<>>)

\* C9: with the executable found, _wrapper reaches the runner without raising
\* and invokes it exactly once with the space-join of prefix, compiled base
\* command, suffix and subcommand name, in that order.
C9_CommandLine ==
  (Finished("_wrapper") /\ Found) =>
     /\ Len(calls) = 1
     /\ calls[1].cmd_str = wargs.pre \o <<SP>> \o _cmd(kwargs).value \o <<SP>>
                             \o wargs.post \o <<SP>> \o wargs.orig

====
